---- MODULE Spec2Model ----
(***************************************************************************)
(* Model of the MySQL load-test harness, mysql-connections/test-app/main.py *)
(*                                                                         *)
(* One main thread (main) and THREADS worker threads (load_test_worker)    *)
(* share the list `results`.  Time is a discrete wall clock `now`, counted *)
(* in units of 1/Second of a second.  Statements that do not block take no *)
(* time, so an action runs a thread from the return of one blocking call   *)
(* to the next blocking call.  A started thread begins to run, and connect *)
(* and execute_query return, at once or any number of clock units later;   *)
(* time.sleep returns when it is due or later; the clock advances only     *)
(* while every live thread is blocked.  MaxDisturbances bounds the clock   *)
(* units spent late, the failed calls and the interrupts of one run.       *)
(***************************************************************************)
EXTENDS Integers, Sequences, FiniteSets, TLC

(* ------------------------------ bounds -------------------------------- *)
MaxThreads   == 2    \* THREADS ranges over 0..MaxThreads
MaxQPS       == 3    \* QPS ranges over 0..MaxQPS
MaxDuration  == 2    \* DURATION ranges over 0..MaxDuration seconds
MaxTotal     == 4    \* largest QPS * DURATION, the "Total queries" of a run
\* what the environment may do to one run: the number of clock units spent
\* in slow calls and overshoots, plus the number of failed connect and
\* execute_query calls, plus the number of KeyboardInterrupts
MaxDisturbances == 2

(* clock units per second: the 1.0 of main.py lines 108-109, 166 *)
Second == 1

Workers == 0 .. (MaxThreads - 1)

LateKinds == {"start", "call", "sleep", "monitor"}

NoTime == -1

\* exit status while the process is running
NoExit == -1

\* no execute_query call made yet
NoId == -1

VARIABLES
    now,              \* time.time()
    late,             \* clock units spent so far: "start" in threads that
                      \* were started and not yet running, "call" in connect
                      \* and execute_query, "sleep" in overshoots of a
                      \* worker's time.sleep, "monitor" in overshoots of main's
    DURATION, QPS, THREADS,      \* configuration, main.py 134-136
    pc,               \* position of main()
    connected,        \* what test_connection(port) returned, main.py 129
    qps_per_thread,   \* main.py 149
    threads,          \* number of threads started and appended, main.py 146-158
    start_time,       \* main.py 161
    last_count,       \* main.py 162, 173
    progress,         \* the last progress line printed, main.py 172
    delta_sum,        \* sum of the queries_this_second printed so far
    wake,             \* end of main's time.sleep(1), main.py 166
    joined,           \* number of threads joined so far, main.py 179-180
    report,           \* the printed test results, main.py 187-206
    exit_code,        \* exit status of the process
    error,            \* exception that ended main(), "none" if none
    interrupts,       \* KeyboardInterrupts delivered so far
    interrupted_at,   \* clock value at the KeyboardInterrupt caught at 175
    results,          \* the shared list, main.py 145
    wpc,              \* position of each load_test_worker
    queries_per_second, \* argument of each worker, main.py 155
    query_id,         \* main.py 76, 103
    w_start_time,     \* main.py 77
    thread_start,     \* main.py 80
    wi,               \* loop variable i of main.py 83
    call_start,       \* start_time of the execute_query call in progress,
                      \* main.py 41
    exec_query_id,    \* query_id of the last execute_query call, main.py 39, 97
    w_wake,           \* when the time.sleep in progress is due, main.py 109
    w_error           \* TRUE once the except clause at main.py 111 ran

mainVars == <<pc, connected, qps_per_thread, threads, start_time, last_count, progress, delta_sum,
              wake, joined, report, exit_code, error, interrupted_at>>
confVars == <<DURATION, QPS, THREADS>>
workerVars == <<wpc, queries_per_second, query_id, w_start_time, thread_start,
                wi, call_start, exec_query_id, w_wake, w_error>>
vars == <<now, late, confVars, mainVars, interrupts, results, workerVars>>

(* ------------------------------ helpers ------------------------------- *)

\* execution_time = (time.time() - start_time) * 1000, main.py 61 and 67
Millis(t) == (t * 1000) \div Second

\* a division that rounds up instead of down
CeilDiv(a, b) == (a + b - 1) \div b

\* QPS // THREADS, main.py 149 (THREADS # 0)
FloorDiv(a, b) == a \div b

\* an append written as an unsynchronised read-modify-write: the outcome
\* overwrites the last one when that came from another thread
LossyAppend(s, o) ==
    IF s # <<>> /\ s[Len(s)].thread # o.thread
    THEN [s EXCEPT ![Len(s)] = o]
    ELSE Append(s, o)

\* results.append(outcome), main.py 98: one atomic list operation
SinkAppend(s, o) == Append(s, o)

\* a loop that runs once more than range(n)
InRangeInclusive(k, n) == k <= n

\* range(queries_per_second), main.py 83
InRange(k, n) == k < n

\* the duration test with <= in place of <
WithinInclusive(t, start, duration) == t - start <= duration * Second

\* time.time() - start_time < duration, main.py 79, 84, 165
Within(t, start, duration) == t - start < duration * Second

\* while time.time() - start_time < DURATION: time.sleep(1), main.py 165-166;
\* the loop ends and main goes on to join the threads, main.py 179
MonitorLoop(t, start) ==
    IF Within(t, start, DURATION) THEN "monitor_sleep" ELSE "join"

\* a main() that goes on whatever test_connection returned
IgnoreTestConnection(ok) == "config"

\* what main() does after test_connection(port), main.py 129-131
AfterTestConnection(ok) == IF ok THEN "config" ELSE "returned"

\* a sleep that is one clock unit short
ShortSleepTime(elapsed) == Second - elapsed - 1

\* time.sleep(1.0 - elapsed), main.py 109
SleepTime(elapsed) == Second - elapsed

\* a monitor that never updates last_count
StaleLastCount(current_count) == 0

\* last_count = current_count, main.py 173
UpdateLastCount(current_count) == current_count

\* a thread that never ends after its error
HangsAfterError == "hung"

\* main.py 111-112: the except clause prints the error and the thread ends
AfterWorkerError == "stopped"

\* a join that does not wait
JoinNoWait(w) == TRUE

\* thread.join() returns once the thread has ended, main.py 180
JoinReturns(w) == wpc[w] = "stopped"

\* sum(1 for r in results if r['success']), main.py 188
Successful(s) == Cardinality({k \in 1 .. Len(s) : s[k].success})

\* a / b rounded to one and to two decimals, in tenths and in hundredths:
\* the formats :.1f and :.2f of main.py 194-206
Tenths(a, b) == (20 * a + b) \div (2 * b)
Hundredths(a, b) == (200 * a + b) \div (2 * b)

\* [r['time'] for r in results if r['success']], main.py 197
Times(s) == {s[k].time : k \in {j \in 1 .. Len(s) : s[j].success}}

RECURSIVE SumTimes(_)
SumTimes(s) ==
    IF s = <<>> THEN 0
    ELSE (IF Head(s).success THEN Head(s).time ELSE 0) + SumTimes(Tail(s))

Smallest(S) == CHOOSE x \in S : \A y \in S : x <= y
Largest(S) == CHOOSE x \in S : \A y \in S : x >= y

\* what is printed when results is empty: the heading only, main.py 183-187
\* and 208; `fields` names the statistics that were printed
NoReport ==
    [printed |-> FALSE, fields |-> {}, total |-> 0, successful |-> 0,
     failed |-> 0, success_rate |-> 0, fastest |-> 0, slowest |-> 0,
     average |-> 0, actual_qps |-> 0]

CountFields == {"total", "successful", "failed", "success_rate", "actual_qps"}
TimeFields == {"fastest", "slowest", "average"}

\* the statistics of a list s, printed elapsed clock units after start_time,
\* main.py 188-206, whether s is empty or not; a quotient whose divisor is 0
\* is given as 0
Statistics(s, elapsed) ==
    LET n == Successful(s) IN
    [printed |-> TRUE,
     fields |-> CountFields \cup (IF n > 0 THEN TimeFields ELSE {}),
     total |-> Len(s),
     successful |-> n,
     failed |-> Len(s) - n,
     success_rate |-> IF Len(s) > 0 THEN Tenths(100 * n, Len(s)) ELSE 0,
     fastest |-> IF n > 0 THEN Smallest(Times(s)) ELSE 0,
     slowest |-> IF n > 0 THEN Largest(Times(s)) ELSE 0,
     average |-> IF n > 0 THEN Hundredths(SumTimes(s), n) ELSE 0,
     actual_qps |-> IF elapsed > 0 THEN Tenths(Len(s) * Second, elapsed)
                    ELSE 0]

\* a report that prints the statistics of an empty list too
MakeReportAlways(s, elapsed) == Statistics(s, elapsed)

NoProgress == [elapsed |-> NoTime, current_count |-> 0, queries_this_second |-> 0]

\* the "TEST RESULTS" block, main.py 187-206: `if results:` guards all of it
MakeReport(s, elapsed) ==
    IF s # <<>> THEN Statistics(s, elapsed) ELSE NoReport

(* ------------------------------- Init --------------------------------- *)
Init ==
    /\ now = 0
    /\ late = [k \in LateKinds |-> 0]
    /\ DURATION \in 0 .. MaxDuration
    /\ QPS \in 0 .. MaxQPS
    /\ THREADS \in 0 .. MaxThreads
    /\ QPS * DURATION <= MaxTotal
    /\ pc = "start"
    /\ connected = "untested"
    /\ qps_per_thread = 0
    /\ threads = 0
    /\ start_time = NoTime
    /\ last_count = 0
    /\ progress = NoProgress
    /\ delta_sum = 0
    /\ wake = NoTime
    /\ joined = 0
    /\ report = NoReport
    /\ exit_code = NoExit
    /\ error = "none"
    /\ interrupts = 0
    /\ interrupted_at = NoTime
    /\ results = <<>>
    /\ wpc = [w \in Workers |-> "unspawned"]
    /\ queries_per_second = [w \in Workers |-> 0]
    /\ query_id = [w \in Workers |-> 0]
    /\ w_start_time = [w \in Workers |-> NoTime]
    /\ thread_start = [w \in Workers |-> NoTime]
    /\ wi = [w \in Workers |-> 0]
    /\ call_start = [w \in Workers |-> NoTime]
    /\ exec_query_id = [w \in Workers |-> NoId]
    /\ w_wake = [w \in Workers |-> NoTime]
    /\ w_error = [w \in Workers |-> FALSE]

(* ---------------------------- environment ---------------------------- *)

\* calls of connect and execute_query that have failed so far
Failures ==
    (Len(results) - Successful(results))
      + Cardinality({w \in Workers : w_error[w]})

\* the threads that spend the current clock unit late, by kind
Overdue ==
    [k \in LateKinds |->
       CASE k = "start" -> Cardinality({w \in Workers : wpc[w] = "init"})
         [] k = "call" ->
              Cardinality({w \in Workers : wpc[w] \in {"connect", "execute"}})
         [] k = "sleep" ->
              Cardinality({w \in Workers :
                             wpc[w] = "sleep" /\ now >= w_wake[w]})
         [] k = "monitor" ->
              IF pc = "monitor_sleep" /\ now >= wake THEN 1 ELSE 0]

TotalLate(l) == l["start"] + l["call"] + l["sleep"] + l["monitor"]

\* what the environment has done to the run so far
Disturbances == TotalLate(late) + Failures + interrupts

(* ------------------------------ main() -------------------------------- *)

\* main.py 128-131: test_connection(port) returns True or False
TestConnection ==
    /\ pc = "start"
    /\ \E ok \in BOOLEAN :
         /\ connected' = IF ok THEN "ok" ELSE "failed"
         /\ pc' = AfterTestConnection(ok)
         /\ exit_code' = IF AfterTestConnection(ok) = "returned"
                          THEN 0 ELSE exit_code
    /\ UNCHANGED <<now, late, confVars, qps_per_thread, threads, start_time,
                   last_count, progress, delta_sum, wake, joined, report, error,
                   interrupted_at, interrupts, results, workerVars>>

\* main.py 133-149: qps_per_thread = QPS // THREADS
Configure ==
    /\ pc = "config"
    /\ IF THREADS = 0
       THEN /\ pc' = "crashed"
            /\ error' = "ZeroDivisionError"
            /\ exit_code' = 1
            /\ UNCHANGED qps_per_thread
       ELSE /\ pc' = "spawn"
            /\ qps_per_thread' = FloorDiv(QPS, THREADS)
            /\ UNCHANGED <<error, exit_code>>
    /\ UNCHANGED <<now, late, confVars, connected, threads, start_time, last_count, progress, delta_sum,
                   wake, joined, report, interrupted_at, interrupts, results,
                   workerVars>>

\* main.py 152-158: one iteration of the loop that starts the threads
Spawn ==
    /\ pc = "spawn"
    /\ threads < THREADS
    /\ wpc' = [wpc EXCEPT ![threads] = "init"]
    /\ queries_per_second' =
           [queries_per_second EXCEPT ![threads] = qps_per_thread]
    /\ threads' = threads + 1
    /\ UNCHANGED <<now, late, confVars, pc, connected, qps_per_thread,
                   start_time, last_count, progress, delta_sum, wake, joined, report,
                   exit_code, error, interrupted_at, interrupts, results,
                   query_id, w_start_time, thread_start, wi, call_start, exec_query_id,
                   w_wake, w_error>>

\* main.py 160-166: all threads started; the monitor loop is entered
MonitorStart ==
    /\ pc = "spawn"
    /\ threads = THREADS
    /\ start_time' = now
    /\ last_count' = 0
    /\ pc' = MonitorLoop(now, now)
    /\ wake' = IF MonitorLoop(now, now) = "monitor_sleep"
               THEN now + Second ELSE NoTime
    /\ UNCHANGED <<now, late, confVars, connected, qps_per_thread, threads, progress, delta_sum, joined,
                   report, exit_code, error, interrupted_at, interrupts,
                   results, workerVars>>

\* main.py 166-173, 165: time.sleep(1) returns, one progress line is printed
\* and the loop test is made again
MonitorReport ==
    /\ pc = "monitor_sleep"
    /\ now >= wake
    /\ progress' = [elapsed |-> now - start_time,
                    current_count |-> Len(results),
                    queries_this_second |-> Len(results) - last_count]
    /\ delta_sum' = delta_sum + (Len(results) - last_count)
    /\ last_count' = UpdateLastCount(Len(results))
    /\ pc' = MonitorLoop(now, start_time)
    /\ wake' = IF MonitorLoop(now, start_time) = "monitor_sleep"
               THEN now + Second ELSE NoTime
    /\ UNCHANGED <<now, late, confVars, connected, qps_per_thread, threads, start_time, joined,
                   report, exit_code, error, interrupted_at, interrupts,
                   results, workerVars>>

\* main.py 179-180: thread.join() for the next thread
Join ==
    /\ pc = "join"
    /\ joined < threads
    /\ JoinReturns(joined)
    /\ joined' = joined + 1
    /\ UNCHANGED <<now, late, confVars, pc, connected, qps_per_thread, threads, start_time,
                   last_count, progress, delta_sum, wake, report, exit_code, error,
                   interrupted_at, interrupts, results, workerVars>>

\* main.py 183-208, then the process exits normally
Report ==
    /\ pc = "join"
    /\ joined = threads
    /\ report' = MakeReport(results, now - start_time)
    /\ pc' = "done"
    /\ exit_code' = 0
    /\ UNCHANGED <<now, late, confVars, connected, qps_per_thread, threads, start_time,
                   last_count, progress, delta_sum, wake, joined, error, interrupted_at,
                   interrupts, results, workerVars>>

\* Ctrl-C: KeyboardInterrupt raised in the main thread.  Inside the monitor
\* loop it is caught (main.py 175-176); anywhere else nothing catches it and
\* main() ends with a traceback, while the threads already started run on.
Interrupt ==
    /\ Disturbances < MaxDisturbances
    /\ pc \notin {"done", "returned", "crashed"}
    /\ interrupts' = interrupts + 1
    /\ IF pc = "monitor_sleep"
       THEN /\ pc' = "join"
            /\ interrupted_at' = now
            /\ wake' = NoTime
            /\ UNCHANGED <<error, exit_code>>
       ELSE /\ pc' = "crashed"
            /\ error' = "KeyboardInterrupt"
            /\ exit_code' = 130
            /\ UNCHANGED <<interrupted_at, wake>>
    /\ UNCHANGED <<now, late, confVars, connected, qps_per_thread, threads, start_time,
                   last_count, progress, delta_sum, joined, report, results, workerVars>>

(* ------------------------- load_test_worker --------------------------- *)

\* The statements of load_test_worker between two blocking calls.  Resume
\* runs worker w from the loop test `at` ("while": main.py 79, "for": main.py
\* 83-85, "pace": main.py 107-108) to its next blocking call or its end, with
\* loop variable k, tick start ts and worker start st, at clock value `now`.
RECURSIVE Resume(_, _, _, _, _)
Resume(w, at, k, ts, st) ==
    CASE at = "while" ->
           IF Within(now, st, DURATION)
           THEN Resume(w, "for", 0, now, st)
           ELSE [pc |-> "stopped", i |-> 0, ts |-> ts, wake |-> NoTime]
      [] at = "for" ->
           IF InRange(k, queries_per_second[w]) /\ Within(now, st, DURATION)
           THEN [pc |-> "connect", i |-> k, ts |-> ts, wake |-> NoTime]
           ELSE Resume(w, "pace", 0, ts, st)
      [] at = "pace" ->
           IF now - ts < Second
           THEN [pc |-> "sleep", i |-> 0, ts |-> ts,
                 wake |-> now + SleepTime(now - ts)]
           ELSE Resume(w, "while", 0, ts, st)

\* the worker's local variables after Resume
Continue(w, r) ==
    /\ wpc' = [wpc EXCEPT ![w] = r.pc]
    /\ wi' = [wi EXCEPT ![w] = r.i]
    /\ thread_start' = [thread_start EXCEPT ![w] = r.ts]
    /\ w_wake' = [w_wake EXCEPT ![w] = r.wake]
    /\ call_start' = [call_start EXCEPT ![w] = NoTime]

\* main.py 76-80: the thread starts running
WorkerStart(w) ==
    /\ wpc[w] = "init"
    /\ query_id' = [query_id EXCEPT ![w] = w * 1000]
    /\ w_start_time' = [w_start_time EXCEPT ![w] = now]
    /\ Continue(w, Resume(w, "while", 0, NoTime, now))
    /\ UNCHANGED <<now, late, confVars, mainVars, interrupts, results,
                   queries_per_second, exec_query_id, w_error>>

\* main.py 87-97 and 39-41: connect returns a connection and execute_query
\* is entered
WorkerConnected(w) ==
    /\ wpc[w] = "connect"
    /\ wpc' = [wpc EXCEPT ![w] = "execute"]
    /\ call_start' = [call_start EXCEPT ![w] = now]
    /\ exec_query_id' = [exec_query_id EXCEPT ![w] = query_id[w] + wi[w]]
    /\ UNCHANGED <<now, late, confVars, mainVars, interrupts, results,
                   queries_per_second, query_id, w_start_time, thread_start,
                   wi, w_wake, w_error>>

\* main.py 87-95 and 111-112: connect raises; the except clause of the
\* worker prints the error and the thread ends
WorkerConnectFailed(w) ==
    /\ wpc[w] = "connect"
    /\ Disturbances < MaxDisturbances
    /\ wpc' = [wpc EXCEPT ![w] = AfterWorkerError]
    /\ w_error' = [w_error EXCEPT ![w] = TRUE]
    /\ wi' = [wi EXCEPT ![w] = 0]
    /\ UNCHANGED <<now, late, confVars, mainVars, interrupts, results,
                   queries_per_second, query_id, w_start_time, thread_start,
                   call_start, exec_query_id, w_wake>>

\* main.py 57-69 and 97-109: execute_query returns (success, execution_time),
\* the outcome is appended, query_id is incremented and the loop goes on
WorkerExecuted(w) ==
    /\ wpc[w] = "execute"
    /\ \E ok \in {b \in BOOLEAN : b \/ Disturbances < MaxDisturbances} :
         results' = SinkAppend(results,
                       [success |-> ok,
                        time |-> Millis(now - call_start[w]),
                        thread |-> w])
    /\ query_id' = [query_id EXCEPT ![w] = query_id[w] + 1]
    /\ Continue(w, Resume(w, "for", wi[w] + 1, thread_start[w], w_start_time[w]))
    /\ UNCHANGED <<now, late, confVars, mainVars, interrupts, queries_per_second,
                   w_start_time, exec_query_id, w_error>>

\* main.py 109, 79-95: time.sleep returns and the outer loop test is made
WorkerWake(w) ==
    /\ wpc[w] = "sleep"
    /\ now >= w_wake[w]
    /\ Continue(w, Resume(w, "while", 0, thread_start[w], w_start_time[w]))
    /\ UNCHANGED <<now, late, confVars, mainVars, interrupts, results,
                   queries_per_second, query_id, w_start_time, exec_query_id,
                   w_error>>

(* ------------------------------- clock -------------------------------- *)

\* main is not running, or it waits in time.sleep or in thread.join
MainBlocked ==
    \/ pc \in {"done", "returned", "crashed"}
    \/ pc = "monitor_sleep"
    \/ pc = "join" /\ joined < threads /\ ~JoinReturns(joined)

\* the wall clock advances while every thread waits in a blocking call
Tick ==
    /\ MainBlocked
    /\ \/ pc = "monitor_sleep"
       \/ \E w \in Workers : wpc[w] \in {"init", "connect", "execute", "sleep"}
    /\ Disturbances + TotalLate(Overdue) <= MaxDisturbances
    /\ now' = now + 1
    /\ late' = [k \in LateKinds |-> late[k] + Overdue[k]]
    /\ UNCHANGED <<confVars, mainVars, interrupts, results, workerVars>>

Next ==
    \/ TestConnection
    \/ Configure
    \/ Spawn
    \/ MonitorStart
    \/ MonitorReport
    \/ Join
    \/ Report
    \/ Interrupt
    \/ \E w \in Workers : WorkerStart(w)
    \/ \E w \in Workers : WorkerConnected(w)
    \/ \E w \in Workers : WorkerConnectFailed(w)
    \/ \E w \in Workers : WorkerExecuted(w)
    \/ \E w \in Workers : WorkerWake(w)
    \/ Tick

Spec == Init /\ [][Next]_vars

TypeOK ==
    /\ now \in Nat
    /\ pc \in {"start", "returned", "config", "crashed", "spawn",
               "monitor_sleep", "join", "done"}
    /\ \A w \in Workers :
         wpc[w] \in {"unspawned", "init", "connect", "execute", "sleep",
                     "stopped"}

(* ------------------------------ properties ---------------------------- *)

\* the workers whose thread has begun to run
Started == {w \in Workers : wpc[w] \notin {"unspawned", "init"}}

\* the number of outcomes of worker w in the list s
CountOf(s, w) == Cardinality({k \in 1 .. Len(s) : s[k].thread = w})

\* the number of appends worker w has made: query_id starts at
\* thread_id * 1000 and is incremented after each append, main.py 76, 103
Appended(w) == query_id[w] - w * 1000

RECURSIVE SumAppended(_)
SumAppended(S) ==
    IF S = {} THEN 0
    ELSE LET w == CHOOSE x \in S : TRUE
         IN  Appended(w) + SumAppended(S \ {w})

AllSucceeded == \A k \in 1 .. Len(results) : results[k].success

\* C1: under any interleaving of the workers, results holds exactly one entry
\* for every append a worker has made: for each worker the number of its
\* entries equals the number of its appends, and the length of results is
\* the sum of the appends of all workers (nothing lost, nothing duplicated).
C1_NoLostOrDuplicatedAppend ==
    /\ \A w \in Started : CountOf(results, w) = Appended(w)
    /\ Len(results) = SumAppended(Started)

\* two workers have ended, each made two appends, and their appends are
\* interleaved in results
C1_Witness ==
    /\ \A w \in {0, 1} : wpc[w] = "stopped" /\ Appended(w) = 2
    /\ \E k \in 1 .. Len(results) - 2 :
         /\ results[k].thread = 1
         /\ results[k + 1].thread = 0
         /\ results[k + 2].thread = 1

\* C2: a failed query attempt (connect or execute_query) never ends the
\* worker's loop: a worker ends only once its duration has elapsed.
C2_FailureNeverEndsWorker ==
    \A w \in Workers :
       wpc[w] = "stopped" => ~Within(now, w_start_time[w], DURATION)

\* C3: if test_connection fails, main() returns at once: no thread is ever
\* started, results stays empty and no test results are printed.
C3_FailedCheckAborts ==
    connected = "failed" =>
       /\ pc = "returned"
       /\ threads = 0
       /\ \A w \in Workers : wpc[w] = "unspawned"
       /\ results = <<>>
       /\ ~report.printed

\* the connectivity check has failed
C3_Witness == connected = "failed" /\ pc = "returned" /\ THREADS > 0

\* C4: the exit code is 0 when the connectivity check succeeds and the run
\* completes, and nonzero when the connectivity check fails.
C4_ExitCode ==
    /\ pc = "done" => exit_code = 0
    /\ (connected = "failed" /\ exit_code # NoExit) => exit_code # 0

\* C5: the test results are computed only when every started thread has
\* ended, also after a KeyboardInterrupt ended the monitor loop, and the
\* printed total is the number of appends all workers made.
C5_ReportAfterAllStopped ==
    pc = "done" =>
       /\ \A w \in 0 .. threads - 1 : wpc[w] = "stopped"
       /\ report.total = SumAppended(0 .. threads - 1)
       /\ report.printed = (SumAppended(0 .. threads - 1) > 0)

\* the monitor loop was interrupted, a worker began a tick after that, and
\* the test results were printed
C5_Witness ==
    /\ pc = "done"
    /\ interrupted_at # NoTime
    /\ report.printed
    /\ \E w \in Workers : thread_start[w] > interrupted_at /\ Appended(w) >= 2

\* C6: a worker that was running when the KeyboardInterrupt came finishes at
\* most its current tick: it makes no query attempt in a tick that began
\* after the interrupt.
C6_StopsAfterInterrupt ==
    \A w \in Workers :
       ( /\ interrupted_at # NoTime
         /\ w_start_time[w] # NoTime
         /\ w_start_time[w] <= interrupted_at
         /\ wpc[w] \in {"connect", "execute"} )
          => thread_start[w] <= interrupted_at

\* C7: with THREADS = 0 the configuration is rejected; computing the
\* per-worker rate never divides by zero.
C7_ZeroWorkersRejected == error # "ZeroDivisionError"

\* C8: a worker whose rate is 0 makes no query attempt, appends nothing and
\* ends only once its duration has elapsed; the run of such workers ends
\* with empty results, exit code 0 and no error.
C8_ZeroRate ==
    /\ \A w \in Workers :
         (wpc[w] # "unspawned" /\ queries_per_second[w] = 0) =>
            /\ wpc[w] \notin {"connect", "execute"}
            /\ CountOf(results, w) = 0
            /\ ~w_error[w]
            /\ wpc[w] = "stopped" => ~Within(now, w_start_time[w], DURATION)
    /\ (pc = "done" /\ THREADS >= 1 /\ qps_per_thread = 0) =>
            /\ results = <<>>
            /\ ~report.printed
            /\ exit_code = 0
            /\ error = "none"

\* two workers with rate 0 ran for two seconds and the run has ended
C8_Witness ==
    /\ pc = "done"
    /\ THREADS = 2 /\ QPS = 1 /\ DURATION = 2
    /\ \A w \in {0, 1} : wpc[w] = "stopped" /\ queries_per_second[w] = 0
    /\ now >= 2 * Second

\* the run has ended, every attempt succeeded and no connect or
\* execute_query call took any time
InstantSuccessfulRun ==
    /\ pc = "done"
    /\ AllSucceeded
    /\ \A w \in Workers : ~w_error[w]
    /\ late["call"] = 0

\* C9 as stated: with calls that always succeed and take no time, the run
\* ends with exactly THREADS * floor(QPS / THREADS) * DURATION outcomes.
C9_ExactCount ==
    InstantSuccessfulRun =>
       Len(results) = THREADS * FloorDiv(QPS, THREADS) * DURATION

\* C9 amended: with calls that always succeed and take no time, the run ends
\* with at most THREADS * floor(QPS / THREADS) * DURATION outcomes, all
\* successful, and with exactly that many when no worker's time.sleep
\* overshoots.
C9_AtMostCount ==
    InstantSuccessfulRun =>
       /\ Len(results) <= THREADS * FloorDiv(QPS, THREADS) * DURATION
       /\ late["sleep"] = 0 =>
            Len(results) = THREADS * FloorDiv(QPS, THREADS) * DURATION

\* a run of two workers for two seconds in which the sleep of one worker
\* overshot and one of the four outcomes is missing
C9_Witness ==
    /\ InstantSuccessfulRun
    /\ THREADS = 2 /\ QPS = 2 /\ DURATION = 2
    /\ late["sleep"] > 0
    /\ Len(results) = 3

\* C10: every worker gets the same rate, floor(QPS / THREADS): the rates of
\* all workers sum to at most QPS and fall short of it by less than THREADS.
C10_FloorRate ==
    \A w \in Workers :
       wpc[w] # "unspawned" =>
          /\ queries_per_second[w] = qps_per_thread
          /\ THREADS * queries_per_second[w] <= QPS
          /\ QPS - THREADS * queries_per_second[w] < THREADS

\* two workers share a rate of 3: each gets 1 and 1 is dropped
C10_Witness ==
    /\ THREADS = 2 /\ QPS = 3
    /\ \A w \in {0, 1} : wpc[w] # "unspawned" /\ queries_per_second[w] = 1

Fairness ==
    /\ WF_vars(TestConnection)
    /\ WF_vars(Configure)
    /\ WF_vars(Spawn)
    /\ WF_vars(MonitorStart)
    /\ WF_vars(MonitorReport)
    /\ WF_vars(Join)
    /\ WF_vars(Report)
    /\ \A w \in Workers :
         /\ WF_vars(WorkerStart(w))
         /\ WF_vars(WorkerConnected(w))
         /\ WF_vars(WorkerExecuted(w))
         /\ WF_vars(WorkerWake(w))
    /\ WF_vars(Tick)

FairSpec == Spec /\ Fairness

\* clock units between start_time (main.py 161) and the current instant
Elapsed == now - start_time

C13_ProgressDeltas ==
    [][ progress' # progress =>
          /\ progress'.queries_this_second =
                progress'.current_count - progress.current_count
          /\ progress'.queries_this_second >= 0
          /\ delta_sum' = progress'.current_count ]_vars

\* a second progress line was printed, both lines with new outcomes, while a
\* worker was still running
C13_Witness ==
    /\ progress.queries_this_second > 0
    /\ progress.current_count > progress.queries_this_second
    /\ delta_sum = progress.current_count
    /\ THREADS = 2

\* C14: a worker never starts a query attempt (the connect call included)
\* at a moment when the time since that worker's own start_time is
\* DURATION or more: whenever a worker enters connect, less than DURATION
\* has elapsed since its start_time, so a tick in progress is cut short.
C14_NoAttemptAfterDuration ==
    [][ \A w \in Workers :
          (wpc[w] # "connect" /\ wpc'[w] = "connect") =>
             now' - w_start_time'[w] < DURATION * Second ]_vars

\* a worker that was to make two attempts per tick ended without error after
\* one: its first attempt took the whole duration and the tick was cut short
C14_Witness ==
    \E w \in Workers :
       /\ wpc[w] = "stopped"
       /\ ~w_error[w]
       /\ queries_per_second[w] = 2
       /\ DURATION = 1
       /\ Appended(w) = 1
       /\ late["call"] > 0

\* C15: within one tick a worker starts at most queries_per_second attempts
\* and appends at most queries_per_second outcomes, whatever the attempts
\* take and return: the attempt entered and the outcome appended are those
\* of loop index i with i + 1 <= queries_per_second.
C15_AtMostRatePerTick ==
    [][ \A w \in Workers :
          /\ (wpc[w] # "connect" /\ wpc'[w] = "connect") =>
                wi'[w] + 1 <= queries_per_second[w]
          /\ CountOf(results', w) > CountOf(results, w) =>
                /\ wi[w] + 1 <= queries_per_second[w]
                /\ CountOf(results', w) = CountOf(results, w) + 1
        ]_vars

\* a worker is in the last attempt of a tick after an attempt of the same
\* tick that failed and took time
C15_Witness ==
    \E w \in Workers :
       /\ wpc[w] = "execute"
       /\ queries_per_second[w] = 2
       /\ wi[w] = 1
       /\ \E k \in 1 .. Len(results) :
            /\ results[k].thread = w
            /\ ~results[k].success
            /\ results[k].time > 0

C17_AttemptNeverAbandoned ==
    [][ \A w \in Workers :
          /\ (wpc[w] = "connect" /\ wpc'[w] # "connect") =>
                wpc'[w] = "execute"
          /\ (wpc[w] = "execute" /\ wpc'[w] # "execute") =>
                CountOf(results', w) = CountOf(results, w) + 1
        ]_vars

\* C18: the outcomes of one worker appear in results in the order of its
\* attempts under any interleaving: a worker appends the outcome of an
\* attempt before it starts the next, and every append puts the outcome
\* after all the outcomes already in results and moves none of them.
C18_WorkerOrderKept ==
    [][ results' # results =>
          /\ Len(results') = Len(results) + 1
          /\ SubSeq(results', 1, Len(results)) = results
          /\ \E w \in Workers :
               /\ wpc[w] = "execute"
               /\ wpc'[w] # "execute"
               /\ results'[Len(results')].thread = w
        ]_vars

\* results holds outcomes of two workers in both orders: one of worker 1
\* before one of worker 0, and one of worker 0 before one of worker 1
C18_Witness ==
    /\ Len(results) >= 3
    /\ results[1].thread = 1
    /\ results[2].thread = 0
    /\ results[3].thread = 0
    /\ \E k \in 4 .. Len(results) : results[k].thread = 1

\* C19: the query_id values a worker passes to execute_query over its run
\* are strictly increasing and start at thread_id * 1000.
C19_IdsStrictlyIncreasing ==
    [][ \A w \in Workers :
          (wpc[w] = "connect" /\ wpc'[w] = "execute") =>
             /\ exec_query_id'[w] > exec_query_id[w]
             /\ exec_query_id[w] = NoId => exec_query_id'[w] = w * 1000
        ]_vars

\* the variables of worker w
LocalsOf(w) ==
    <<wpc[w], queries_per_second[w], query_id[w], w_start_time[w],
      thread_start[w], wi[w], call_start[w], exec_query_id[w], w_wake[w],
      w_error[w]>>

\* the step in which the except clause of worker w runs changes nothing of
\* main(), of results or of another worker; the thread of w has ended, so
\* thread.join() of it returns; the test results printed count every outcome
WorkerErrorConfined ==
    /\ [][ \A w \in Workers :
             (w_error'[w] /\ ~w_error[w]) =>
                /\ UNCHANGED <<mainVars, results, now>>
                /\ \A v \in Workers \ {w} : LocalsOf(v)' = LocalsOf(v) ]_vars
    /\ [](\A w \in Workers : w_error[w] => JoinReturns(w))
    /\ (\E w \in Workers : w_error[w]) ~>
          (pc = "done" \/ error = "KeyboardInterrupt")

====
